---- MODULE Spec2Model ----
(***************************************************************************)
(* Model of syncer/syncer.go (package syncer of lpg-it/fileuploader):      *)
(* Sync, fullSync, incrementalSync, collectLocalFiles, uploadFiles, worker *)
(* and uploadFile, together with the remote filesystem they drive through  *)
(* sftp.Client (Stat, MkdirAll, Create, Write, Chmod, Chtimes, Rename,    *)
(* RemoveDirectory).                                                       *)
(*                                                                         *)
(* Sizes are counted in buffer reads: one unit is one Read of the copy     *)
(* loop of uploadFile (syncer.go:345-365).                                 *)
(***************************************************************************)
EXTENDS Integers, Sequences, FiniteSets, TLC

(***************************************************************************)
(* Bounds of the model.                                                    *)
(***************************************************************************)
\* Number of Sync calls made on the one Syncer in a behaviour.
MaxCalls == 2
\* Largest value of the clock time.Now() reads, in seconds; stamps are 0..MaxTime.
MaxTime == 1
\* Largest worker count a caller configures (the smallest is -1).
MaxWorkers == 2

(***************************************************************************)
(* Paths.  Every remote path the program touches is a top-level directory  *)
(* (the target s.remotePath, a staging directory .sync_tmp_<stamp>, a      *)
(* backup <remotePath>.bak_<stamp>; all siblings) followed by a path       *)
(* relative to it.  "." is the top-level directory itself.                 *)
(***************************************************************************)
Stamps == 0..MaxTime

TargetRoot == <<"target", 0>>

\* syncer.go:107  filepath.Join(filepath.Dir(s.remotePath), ".sync_tmp_"+stamp)
TempRoot(t) == <<"tmp", t>>

\* syncer.go:130  s.remotePath + ".bak_" + stamp
BackupRoot(t) == <<"bak", t>>

Roots == {TargetRoot} \cup {TempRoot(t) : t \in Stamps} \cup {BackupRoot(t) : t \in Stamps}

\* Relative paths of the local trees, in the lexical order filepath.Walk visits them.
WalkOrder == <<"a", "d", "d/f">>

LocalPaths == {WalkOrder[i] : i \in 1..Len(WalkOrder)}

\* "x" is a remote-only entry: no local tree has it.
RelPaths == {"."} \cup LocalPaths \cup {"x"}

\* filepath.Dir of a relative path
Parent(p) == IF p = "d/f" THEN "d" ELSE "."

(***************************************************************************)
(* Nodes.  ver identifies the content a file was copied from, len is the   *)
(* number of units it holds, mtime its modification time (0: set by the    *)
(* server at creation).  Permission bits are not kept: the program never   *)
(* reads them back, and of Chmod it observes the error only.               *)
(***************************************************************************)
NoNode == [kind |-> "none", ver |-> 0, len |-> 0, mtime |-> 0]

DirNode == [kind |-> "dir", ver |-> 0, len |-> 0, mtime |-> 0]

FileNode(v, l, m) == [kind |-> "file", ver |-> v, len |-> l, mtime |-> m]

NoTree == [p \in RelPaths |-> NoNode]

EmptyDir == [NoTree EXCEPT !["."] = DirNode]

(***************************************************************************)
(* The local trees a Sync call can find under s.localPath.                 *)
(***************************************************************************)
TreeA == [EmptyDir EXCEPT !["a"] = FileNode(1, 2, 1),
                          !["d"] = DirNode,
                          !["d/f"] = FileNode(2, 1, 1)]

TreeB == [EmptyDir EXCEPT !["d"] = DirNode,
                          !["d/f"] = FileNode(3, 1, 2)]

LocalTrees == {TreeA, TreeB, EmptyDir}

\* The remote target before the first call: absent, or an older tree whose d/f
\* has the size and modification time of TreeA's d/f and the same content.
OldTree == [EmptyDir EXCEPT !["x"] = FileNode(9, 1, 1),
                            !["d"] = DirNode,
                            !["d/f"] = FileNode(2, 1, 1)]

InitialTargets == {NoTree, OldTree}

(***************************************************************************)
(* The remote filesystem port (the sftp client), as functions of the      *)
(* remote state fs : Roots -> tree.  Each operation can also fail for an  *)
(* external reason; the actions choose between success and failure.       *)
(***************************************************************************)
Exists(fs, r) == fs[r]["."].kind = "dir"

\* Ancestors of a relative path, the path included, "." included.
Chain(p) == IF p = "." THEN {"."} ELSE IF Parent(p) = "." THEN {".", p} ELSE {".", Parent(p), p}

\* A faulty CanMkdirAll: a plain mkdir, refused when the directory is there.
CanMkdirAll_Exclusive(fs, r, p) ==
    fs[r][p].kind = "none" /\ \A q \in Chain(p) : fs[r][q].kind # "file"

\* client.MkdirAll(root/p): possible unless a component is a regular file.
CanMkdirAll(fs, r, p) == \A q \in Chain(p) : fs[r][q].kind # "file"

\* A faulty MkdirAll: the directories of the path are made anew, whatever they held.
MkdirAll_Recreate(fs, r, p) ==
    [fs EXCEPT ![r] = [q \in RelPaths |-> IF q \in Chain(p) THEN DirNode ELSE NoNode]]

\* client.MkdirAll(root/p): creates the missing components, keeps existing ones.
MkdirAll(fs, r, p) ==
    [fs EXCEPT ![r] = [q \in RelPaths |->
        IF q \in Chain(p) /\ fs[r][q].kind = "none" THEN DirNode ELSE fs[r][q]]]

\* client.Create(root/p): needs the parent directory, and p not a directory.
CanCreate(fs, r, p) == fs[r][Parent(p)].kind = "dir" /\ fs[r][p].kind # "dir"

\* client.Create(root/p): creates or truncates (O_TRUNC); the server stamps it.
Create(fs, r, p, v) ==
    [fs EXCEPT ![r][p] = FileNode(v, 0, 0)]

\* remoteFile.Write(buf[:n]): appends the unit read.
Write(fs, r, p) == [fs EXCEPT ![r][p].len = @ + 1]

\* client.Chmod(root/p, 0644): changes the permission bits only.
Chmod(fs, r, p) == fs

\* client.Chtimes(root/p, now, modTime)
Chtimes(fs, r, p, m) == [fs EXCEPT ![r][p].mtime = m]

\* client.Rename(old, new) (SSH_FXP_RENAME): needs old, refuses an existing new.
CanRename(fs, old, new) == Exists(fs, old) /\ ~Exists(fs, new)

Rename(fs, old, new) == [fs EXCEPT ![new] = fs[old], ![old] = NoTree]

\* client.RemoveDirectory(root) (SSH_FXP_RMDIR): removes an empty directory only.
CanRemoveDirectory(fs, r) == fs[r] = EmptyDir

RemoveDirectory(fs, r) == [fs EXCEPT ![r] = NoTree]

(***************************************************************************)
(* State.                                                                  *)
(***************************************************************************)
VARIABLES
    mode,        \* Syncer.mode
    workers,     \* Syncer.workers
    totalSize,   \* Syncer.totalSize
    syncedSize,  \* Syncer.syncedSize
    bar,         \* the value last given to the progress bar (Start64, SetCurrent)
    localTree,   \* the tree under s.localPath
    rfs,         \* the remote filesystem: Roots -> tree
    now,         \* the clock time.Now() reads, in seconds
    pc,          \* the position of the goroutine that called Sync
    calls,       \* number of Sync calls started
    result,      \* the error value the last Sync call returns
    localFiles,  \* fullSync/incrementalSync: localFiles
    tempPath,    \* fullSync: tempRemotePath
    backupPath,  \* fullSync: backupPath
    base,        \* uploadFiles: remoteBasePath
    jobs,        \* uploadFiles: the jobs channel (buffered, cap len(files))
    sent,        \* uploadFiles: number of files sent to jobs
    closed,      \* uploadFiles: jobs is closed
    errs,        \* uploadFiles: the errors channel (buffered, cap len(files))
    wpc,         \* position of each worker goroutine
    wjob,        \* worker: file
    woff,        \* uploadFile: units of the local file already read
    preTarget,   \* history: the target when the current call began
    issued,      \* history: state-changing remote operations the call issued on top-level paths
    uploaded,    \* history: files the call created remotely (uploadFile reached Create)
    prevTree,    \* history: the local tree of the previous call
    prevResult,  \* history: the result of the previous call
    startSynced, \* history: s.syncedSize when the current call began
    walkFailed,  \* history: collectLocalFiles of the current call reported an error
    taken,       \* history: how many times each entry was received from jobs
    succeeded,   \* history: entries whose processing ended without an error
    fault        \* history: an operation of the pipeline failed for an outside reason

vars == <<mode, workers, totalSize, syncedSize, bar, localTree, rfs, now, pc, calls,
          result, localFiles, tempPath, backupPath, base, jobs, sent, closed, errs,
          wpc, wjob, woff, preTarget, issued, uploaded, prevTree, prevResult,
          startSynced, walkFailed, taken, succeeded, fault>>

syncerVars == <<mode, workers>>
callVars == <<localFiles, tempPath, backupPath, base>>
poolVars == <<jobs, sent, closed, errs, wpc, wjob, woff>>
histVars == <<preTarget, uploaded, prevTree, prevResult, startSynced, walkFailed>>
pipeHist == <<taken, succeeded, fault>>

Workers == 1..MaxWorkers

Modes == {"full", "incremental", "mirror"}

\* The worker counts a caller configures: New stores SyncConfig.Workers as given,
\* a negative count and zero included.
WorkerCounts == (-1)..MaxWorkers

\* A faulty Dispatch: every mode other than "full" runs incrementalSync.
Dispatch_DefaultIncremental(m) == IF m = "full" THEN "full" ELSE "incremental"

\* Sync: switch s.mode { case "full": ... case "incremental": ... default: ... }
Dispatch(m) == IF m \in {"full", "incremental"} THEN m ELSE "unsupported"

(***************************************************************************)
(* Values.                                                                 *)
(***************************************************************************)
\* FileInfo, as collectLocalFiles fills it (Path is localPath/RelPath).
FileInfoOf(tree, p) ==
    [RelPath |-> p, Size |-> tree[p].len, ModTime |-> tree[p].mtime,
     IsDir |-> tree[p].kind = "dir"]

NoFile == [RelPath |-> ".", Size |-> 0, ModTime |-> 0, IsDir |-> FALSE]

\* collectLocalFiles: one FileInfo per descendant of the root, in Walk's order.
Walk(tree) ==
    LET present == SelectSeq(WalkOrder, LAMBDA p : tree[p].kind # "none")
    IN  [i \in 1..Len(present) |-> FileInfoOf(tree, present[i])]

RECURSIVE SumSizes(_, _)
SumSizes(files, i) ==
    IF i > Len(files) THEN 0
    ELSE (IF files[i].IsDir THEN 0 ELSE files[i].Size) + SumSizes(files, i + 1)

\* s.totalSize = 0; for each file that is not a directory: s.totalSize += file.Size
TotalSize(files) == SumSizes(files, 1)

\* s.syncedSize += int64(n), under s.mutex
AddSynced(cur, n) == cur + n

\* The error values Sync returns.  cause names the failed operation the message
\* formats with %v; cause2 the second one of the combined restore error.
Ok == [kind |-> "ok", cause |-> "", cause2 |-> ""]
NoResult == [kind |-> "none", cause |-> "", cause2 |-> ""]
ErrUnsupported == [kind |-> "unsupported sync mode", cause |-> "", cause2 |-> ""]
ErrCollect == [kind |-> "failed to collect local files", cause |-> "walk", cause2 |-> ""]
ErrTempDir == [kind |-> "failed to create temporary directory", cause |-> "mkdirall", cause2 |-> ""]
ErrRemoteDir == [kind |-> "failed to create remote directory", cause |-> "mkdirall", cause2 |-> ""]
ErrUpload == [kind |-> "failed to upload files", cause |-> "worker error", cause2 |-> ""]
ErrBackup(e) == [kind |-> "failed to create backup", cause |-> e, cause2 |-> ""]
\* A faulty ErrRestoreFailed: the message formats the swap error only.
ErrRestoreFailed_OneCause(e, restoreErr) ==
    [kind |-> "sync failed and restore failed", cause |-> e, cause2 |-> ""]
ErrRestoreFailed(e, restoreErr) ==
    [kind |-> "sync failed and restore failed", cause |-> e, cause2 |-> restoreErr]
ErrRestored(e) == [kind |-> "sync failed, restored from backup", cause |-> e, cause2 |-> ""]
ErrRenameTemp(e) == [kind |-> "failed to rename temporary directory", cause |-> e, cause2 |-> ""]

\* The errors of the three renames of fullSync.
BackupRenameErr == "rename target to backup"
SwapRenameErr == "rename temp to target"
RestoreRenameErr == "rename backup to target"

\* A faulty FullUploadBase: the pipeline uploads into s.remotePath itself.
FullUploadBase_InPlace(temp) == TargetRoot

\* fullSync: s.uploadFiles(localFiles, tempRemotePath)
FullUploadBase(temp) == temp

\* incrementalSync: s.uploadFiles(localFiles, s.remotePath)
IncUploadBase == TargetRoot

\* A faulty UploadFailed: the errors channel is never looked at.
UploadFailed_Ignored(es) == FALSE

\* uploadFiles: the first error of the errors channel decides the return value.
UploadFailed(es) == es # <<>>

\* worker: errors <- fmt.Errorf("... %s: %v", path, err): the entry that failed.
WorkerErr(f) == f.RelPath

\* A faulty CollectFailed: the error of collectLocalFiles is dropped.
CollectFailed_Ignored(err) == FALSE

\* fullSync / incrementalSync: if err != nil { return ... } after collectLocalFiles.
CollectFailed(err) == err

\* No entry has been received from jobs.
NoneTaken == [p \in LocalPaths |-> 0]

(***************************************************************************)
(* Initial states: New(client, syncConfig, logger), no Sync call yet.      *)
(***************************************************************************)
InitWith(ms, ws) ==
    /\ mode \in ms
    /\ workers \in ws
    /\ totalSize = 0
    /\ syncedSize = 0
    /\ bar = 0
    /\ localTree = EmptyDir
    /\ \E t \in InitialTargets : rfs = [r \in Roots |-> IF r = TargetRoot THEN t ELSE NoTree]
    /\ now = 0
    /\ pc = "idle"
    /\ calls = 0
    /\ result = NoResult
    /\ localFiles = <<>>
    /\ tempPath = TempRoot(0)
    /\ backupPath = BackupRoot(0)
    /\ base = TargetRoot
    /\ jobs = <<>>
    /\ sent = 0
    /\ closed = FALSE
    /\ errs = <<>>
    /\ wpc = [w \in Workers |-> "off"]
    /\ wjob = [w \in Workers |-> NoFile]
    /\ woff = [w \in Workers |-> 0]
    /\ preTarget = NoTree
    /\ issued = <<>>
    /\ uploaded = {}
    /\ prevTree = EmptyDir
    /\ prevResult = NoResult
    /\ startSynced = 0
    /\ walkFailed = FALSE
    /\ taken = NoneTaken
    /\ succeeded = {}
    /\ fault = "none"

Init == InitWith(Modes, WorkerCounts)

(***************************************************************************)
(* Sync, and the start of fullSync and incrementalSync.                    *)
(***************************************************************************)
Op(name, ok) == [op |-> name, ok |-> ok]

\* Sync returns: the locals of the call, its channels and its goroutines are gone.
\* tempPath and backupPath keep the names the call used until the next call.
Return ==
    /\ pc' = "idle"
    /\ localFiles' = <<>>
    /\ base' = TargetRoot
    /\ jobs' = <<>>
    /\ sent' = 0
    /\ closed' = FALSE
    /\ errs' = <<>>
    /\ wpc' = [w \in Workers |-> "off"]
    /\ wjob' = [w \in Workers |-> NoFile]
    /\ woff' = [w \in Workers |-> 0]
    /\ taken' = NoneTaken
    /\ succeeded' = {}
    /\ fault' = "none"

\* A Sync call begins: the history of the call is reset.
BeginCall ==
    /\ pc = "idle"
    /\ calls < MaxCalls
    /\ calls' = calls + 1
    /\ preTarget' = rfs[TargetRoot]
    /\ issued' = <<>>
    /\ uploaded' = {}
    /\ prevTree' = localTree
    /\ prevResult' = result
    /\ startSynced' = syncedSize

\* Sync: default branch of the switch.
SyncUnsupported ==
    /\ BeginCall
    /\ Dispatch(mode) = "unsupported"
    /\ result' = ErrUnsupported
    /\ walkFailed' = FALSE
    /\ UNCHANGED <<syncerVars, totalSize, syncedSize, bar, localTree, rfs, now, pc,
                   callVars, poolVars, pipeHist>>

\* fullSync / incrementalSync: collectLocalFiles fails (filepath.Walk reports an error).
SyncCollectFail ==
    /\ BeginCall
    /\ Dispatch(mode) # "unsupported"
    /\ CollectFailed(TRUE)
    /\ walkFailed' = TRUE
    /\ result' = ErrCollect
    /\ UNCHANGED <<syncerVars, totalSize, syncedSize, bar, localTree, rfs, now, pc,
                   callVars, poolVars, pipeHist>>

\* fullSync up to the computation of tempRemotePath (syncer.go:80-108).
FullSyncBegin ==
    /\ BeginCall
    /\ Dispatch(mode) = "full"
    /\ \E err \in BOOLEAN : ~CollectFailed(err) /\ walkFailed' = err
    /\ \E tree \in LocalTrees, t \in now..MaxTime :
        /\ localTree' = tree
        /\ localFiles' = Walk(tree)
        /\ totalSize' = TotalSize(Walk(tree))
        /\ now' = t
        /\ tempPath' = TempRoot(t)
        /\ backupPath' = BackupRoot(t)
    /\ bar' = 0
    /\ pc' = "f_mktemp"
    /\ result' = NoResult
    /\ UNCHANGED <<syncerVars, syncedSize, rfs, base, poolVars, pipeHist>>

\* incrementalSync up to the progress bar (syncer.go:165-189).
IncSyncBegin ==
    /\ BeginCall
    /\ Dispatch(mode) = "incremental"
    /\ \E err \in BOOLEAN : ~CollectFailed(err) /\ walkFailed' = err
    /\ \E tree \in LocalTrees :
        /\ localTree' = tree
        /\ localFiles' = Walk(tree)
        /\ totalSize' = TotalSize(Walk(tree))
    /\ bar' = 0
    /\ pc' = "i_mkdir"
    /\ result' = NoResult
    /\ UNCHANGED <<syncerVars, syncedSize, rfs, now, tempPath, backupPath, base, poolVars,
                   pipeHist>>

\* fullSync: s.client.MkdirAll(tempRemotePath) (syncer.go:110-113).
FullMkTemp ==
    /\ pc = "f_mktemp"
    /\ \/ /\ CanMkdirAll(rfs, tempPath, ".")
          /\ rfs' = MkdirAll(rfs, tempPath, ".")
          /\ issued' = Append(issued, Op("mktemp", TRUE))
          /\ base' = FullUploadBase(tempPath)
          /\ pc' = "u_spawn"
          /\ UNCHANGED <<result, localFiles, poolVars, pipeHist>>
       \/ /\ issued' = Append(issued, Op("mktemp", FALSE))
          /\ result' = ErrTempDir
          /\ Return
          /\ UNCHANGED rfs
    /\ UNCHANGED <<syncerVars, totalSize, syncedSize, bar, localTree, now, calls,
                   tempPath, backupPath, histVars>>

\* incrementalSync: s.client.MkdirAll(s.remotePath) (syncer.go:192-195).
IncMkdir ==
    /\ pc = "i_mkdir"
    /\ \/ /\ CanMkdirAll(rfs, TargetRoot, ".")
          /\ rfs' = MkdirAll(rfs, TargetRoot, ".")
          /\ issued' = Append(issued, Op("mkdir", TRUE))
          /\ base' = IncUploadBase
          /\ pc' = "u_spawn"
          /\ UNCHANGED <<result, localFiles, poolVars, pipeHist>>
       \/ /\ issued' = Append(issued, Op("mkdir", FALSE))
          /\ result' = ErrRemoteDir
          /\ Return
          /\ UNCHANGED rfs
    /\ UNCHANGED <<syncerVars, totalSize, syncedSize, bar, localTree, now, calls,
                   tempPath, backupPath, histVars>>

(***************************************************************************)
(* uploadFiles (syncer.go:253-290).                                        *)
(***************************************************************************)
\* A faulty ChanCap: both channels hold one element whatever the list.
ChanCap_One(files) == 1

\* make(chan FileInfo, len(files)), make(chan error, len(files))
ChanCap(files) == Len(files)

\* A faulty WgWait: uploadFiles goes on without waiting for the workers.
WgWait_Skipped(pcs) == TRUE

\* wg.Wait() returns: every worker started has run its deferred wg.Done().
WgWait(pcs) == \A w \in Workers : pcs[w] \in {"off", "done"}

\* make(chan, len(files)) twice, then one goroutine per worker.
UploadSpawn ==
    /\ pc = "u_spawn"
    /\ jobs' = <<>>
    /\ errs' = <<>>
    /\ closed' = FALSE
    /\ sent' = 0
    /\ wpc' = [w \in Workers |-> IF w <= workers THEN "recv" ELSE "off"]
    /\ wjob' = [w \in Workers |-> NoFile]
    /\ woff' = [w \in Workers |-> 0]
    /\ pc' = "u_send"
    /\ UNCHANGED <<syncerVars, totalSize, syncedSize, bar, localTree, rfs, now, calls,
                   result, callVars, histVars, issued, pipeHist>>

\* jobs <- file: blocks while the channel is full.
UploadSend ==
    /\ pc = "u_send"
    /\ sent < Len(localFiles)
    /\ Len(jobs) < ChanCap(localFiles)
    /\ jobs' = Append(jobs, localFiles[sent + 1])
    /\ sent' = sent + 1
    /\ UNCHANGED <<syncerVars, totalSize, syncedSize, bar, localTree, rfs, now, pc, calls,
                   result, callVars, closed, errs, wpc, wjob, woff, histVars, issued,
                   pipeHist>>

\* close(jobs)
UploadClose ==
    /\ pc = "u_send"
    /\ sent = Len(localFiles)
    /\ closed' = TRUE
    /\ pc' = "u_wait"
    /\ UNCHANGED <<syncerVars, totalSize, syncedSize, bar, localTree, rfs, now, calls,
                   result, callVars, jobs, sent, errs, wpc, wjob, woff, histVars, issued,
                   pipeHist>>

\* wg.Wait(); close(errors)
UploadWait ==
    /\ pc = "u_wait"
    /\ WgWait(wpc)
    /\ pc' = "u_errs"
    /\ UNCHANGED <<syncerVars, totalSize, syncedSize, bar, localTree, rfs, now, calls,
                   result, callVars, poolVars, histVars, issued, pipeHist>>

(***************************************************************************)
(* worker (syncer.go:293-314) and uploadFile (syncer.go:317-378).          *)
(***************************************************************************)
orchVars == <<syncerVars, totalSize, localTree, now, pc, calls, result, callVars,
              sent, closed, preTarget, prevTree, prevResult, startSynced, walkFailed,
              issued>>

\* The worker is back at "for file := range jobs".
NextJob(w) ==
    /\ wpc' = [wpc EXCEPT ![w] = "recv"]
    /\ wjob' = [wjob EXCEPT ![w] = NoFile]
    /\ woff' = [woff EXCEPT ![w] = 0]

\* A faulty AfterError: the worker returns at the first error.
AfterError_Return(w) ==
    /\ wpc' = [wpc EXCEPT ![w] = "done"]
    /\ wjob' = [wjob EXCEPT ![w] = NoFile]
    /\ woff' = [woff EXCEPT ![w] = 0]

\* worker: "continue" after errors <- err: the loop goes on with the next job.
AfterError(w) == NextJob(w)

\* errors <- err; continue.  The send blocks while the channel is full.
Fail(w, f) ==
    /\ Len(errs) < ChanCap(localFiles)
    /\ errs' = Append(errs, WorkerErr(f))
    /\ AfterError(w)

\* A remote operation that could have succeeded failed: an outside reason.
RemoteFault(possible) == IF possible THEN "remote" ELSE fault

\* A read of the local file failed; a remote fault already seen stays on record.
LocalFault == IF fault = "remote" THEN "remote" ELSE "local"

\* file := <-jobs, a directory entry.
WorkerTakeDir(w) ==
    /\ wpc[w] = "recv"
    /\ jobs # <<>>
    /\ Head(jobs).IsDir
    /\ jobs' = Tail(jobs)
    /\ taken' = [taken EXCEPT ![Head(jobs).RelPath] = @ + 1]
    /\ wjob' = [wjob EXCEPT ![w] = Head(jobs)]
    /\ wpc' = [wpc EXCEPT ![w] = "mkdir"]
    /\ UNCHANGED <<orchVars, syncedSize, bar, rfs, errs, woff, uploaded, succeeded, fault>>

\* file := <-jobs, a file entry; uploadFile: os.Open(file.Path).
WorkerTakeFile(w) ==
    /\ wpc[w] = "recv"
    /\ jobs # <<>>
    /\ ~Head(jobs).IsDir
    /\ jobs' = Tail(jobs)
    /\ taken' = [taken EXCEPT ![Head(jobs).RelPath] = @ + 1]
    /\ \/ /\ wjob' = [wjob EXCEPT ![w] = Head(jobs)]
          /\ wpc' = [wpc EXCEPT ![w] = "mkparent"]
          /\ UNCHANGED <<errs, woff, fault>>
       \/ /\ Fail(w, Head(jobs))
          /\ fault' = LocalFault
    /\ UNCHANGED <<orchVars, syncedSize, bar, rfs, uploaded, succeeded>>

\* range jobs ends: the channel is closed and drained; wg.Done().
WorkerExit(w) ==
    /\ wpc[w] = "recv"
    /\ jobs = <<>>
    /\ closed
    /\ wpc' = [wpc EXCEPT ![w] = "done"]
    /\ UNCHANGED <<orchVars, syncedSize, bar, rfs, jobs, errs, wjob, woff, uploaded,
                   pipeHist>>

\* worker: s.client.MkdirAll(remoteBasePath/RelPath) for a directory entry.
WorkerMkdir(w) ==
    /\ wpc[w] = "mkdir"
    /\ \/ /\ CanMkdirAll(rfs, base, wjob[w].RelPath)
          /\ rfs' = MkdirAll(rfs, base, wjob[w].RelPath)
          /\ succeeded' = succeeded \cup {wjob[w].RelPath}
          /\ NextJob(w)
          /\ UNCHANGED <<errs, fault>>
       \/ /\ Fail(w, wjob[w])
          /\ fault' = RemoteFault(CanMkdirAll(rfs, base, wjob[w].RelPath))
          /\ UNCHANGED <<rfs, succeeded>>
    /\ UNCHANGED <<orchVars, syncedSize, bar, jobs, uploaded, taken>>

\* uploadFile: s.client.MkdirAll(filepath.Dir(remoteFilePath)).
WorkerMkParent(w) ==
    /\ wpc[w] = "mkparent"
    /\ \/ /\ CanMkdirAll(rfs, base, Parent(wjob[w].RelPath))
          /\ rfs' = MkdirAll(rfs, base, Parent(wjob[w].RelPath))
          /\ wpc' = [wpc EXCEPT ![w] = "create"]
          /\ UNCHANGED <<errs, wjob, woff, fault>>
       \/ /\ Fail(w, wjob[w])
          /\ fault' = RemoteFault(CanMkdirAll(rfs, base, Parent(wjob[w].RelPath)))
          /\ UNCHANGED rfs
    /\ UNCHANGED <<orchVars, syncedSize, bar, jobs, uploaded, taken, succeeded>>

\* uploadFile: s.client.Create(remoteFilePath).
WorkerCreate(w) ==
    /\ wpc[w] = "create"
    /\ \/ /\ CanCreate(rfs, base, wjob[w].RelPath)
          /\ rfs' = Create(rfs, base, wjob[w].RelPath, localTree[wjob[w].RelPath].ver)
          /\ uploaded' = uploaded \cup {wjob[w].RelPath}
          /\ wpc' = [wpc EXCEPT ![w] = "copy"]
          /\ UNCHANGED <<errs, wjob, woff, fault>>
       \/ /\ Fail(w, wjob[w])
          /\ fault' = RemoteFault(CanCreate(rfs, base, wjob[w].RelPath))
          /\ UNCHANGED <<rfs, uploaded>>
    /\ UNCHANGED <<orchVars, syncedSize, bar, jobs, taken, succeeded>>

\* localFile.Read(buf) has reached the end of the local file.
AtEOF(w) == woff[w] >= localTree[wjob[w].RelPath].len

\* uploadFile: one turn of the copy loop.  Read gives a unit, Write appends it,
\* and under s.mutex s.syncedSize += n; s.bar.SetCurrent(s.syncedSize).  Or Read
\* reports io.EOF and the loop ends; or Read fails; or Write fails.
WorkerCopy(w) ==
    /\ wpc[w] = "copy"
    /\ \/ /\ ~AtEOF(w)
          /\ rfs' = Write(rfs, base, wjob[w].RelPath)
          /\ syncedSize' = AddSynced(syncedSize, 1)
          /\ bar' = AddSynced(syncedSize, 1)
          /\ woff' = [woff EXCEPT ![w] = @ + 1]
          /\ UNCHANGED <<errs, wjob, wpc, fault>>
       \/ /\ AtEOF(w)
          /\ wpc' = [wpc EXCEPT ![w] = "chmod"]
          /\ UNCHANGED <<rfs, syncedSize, bar, errs, wjob, woff, fault>>
       \/ /\ Fail(w, wjob[w])
          /\ fault' = LocalFault
          /\ UNCHANGED <<rfs, syncedSize, bar>>
       \/ /\ ~AtEOF(w)
          /\ Fail(w, wjob[w])
          /\ fault' = RemoteFault(TRUE)
          /\ UNCHANGED <<rfs, syncedSize, bar>>
    /\ UNCHANGED <<orchVars, jobs, uploaded, taken, succeeded>>

\* A faulty AfterWarning: the failure is sent to errors like a transfer error.
AfterWarning_AsError(es, f) == Append(es, WorkerErr(f))

\* uploadFile: a failed Chmod or Chtimes is logged with Warnf and nothing else.
AfterWarning(es, f) == es

\* uploadFile: s.client.Chmod(remoteFilePath, 0644); a failure is a warning.
WorkerChmod(w) ==
    /\ wpc[w] = "chmod"
    /\ \/ /\ rfs' = Chmod(rfs, base, wjob[w].RelPath)
          /\ UNCHANGED <<errs, fault>>
       \/ /\ errs' = AfterWarning(errs, wjob[w])
          /\ fault' = RemoteFault(TRUE)
          /\ UNCHANGED rfs
    /\ wpc' = [wpc EXCEPT ![w] = "chtimes"]
    /\ UNCHANGED <<orchVars, syncedSize, bar, jobs, wjob, woff, uploaded, taken, succeeded>>

\* uploadFile: s.client.Chtimes(remoteFilePath, now, file.ModTime); a failure is a
\* warning; return nil.
WorkerChtimes(w) ==
    /\ wpc[w] = "chtimes"
    /\ \/ /\ rfs' = Chtimes(rfs, base, wjob[w].RelPath, wjob[w].ModTime)
          /\ UNCHANGED <<errs, fault>>
       \/ /\ errs' = AfterWarning(errs, wjob[w])
          /\ fault' = RemoteFault(TRUE)
          /\ UNCHANGED rfs
    /\ succeeded' = succeeded \cup {wjob[w].RelPath}
    /\ NextJob(w)
    /\ UNCHANGED <<orchVars, syncedSize, bar, jobs, uploaded, taken>>

Worker(w) ==
    \/ WorkerTakeDir(w)
    \/ WorkerTakeFile(w)
    \/ WorkerExit(w)
    \/ WorkerMkdir(w)
    \/ WorkerMkParent(w)
    \/ WorkerCreate(w)
    \/ WorkerCopy(w)
    \/ WorkerChmod(w)
    \/ WorkerChtimes(w)

(***************************************************************************)
(* uploadFiles returns (syncer.go:282-289) to fullSync (syncer.go:125-131) *)
(* or to incrementalSync (syncer.go:198-204).                              *)
(***************************************************************************)
keptVars == <<syncerVars, totalSize, syncedSize, bar, localTree, calls, histVars>>
fixedVars == <<keptVars, localFiles, base, poolVars, pipeHist>>

\* fullSync: the pipeline failed; return, the deferred cleanup is pending.
FullUploadFailed ==
    /\ pc = "u_errs"
    /\ mode = "full"
    /\ UploadFailed(errs)
    /\ result' = ErrUpload
    /\ pc' = "f_cleanup"
    /\ UNCHANGED <<fixedVars, rfs, now, tempPath, backupPath, issued>>

\* fullSync: the pipeline succeeded; backupPath is computed.
FullUploaded ==
    /\ pc = "u_errs"
    /\ mode = "full"
    /\ ~UploadFailed(errs)
    /\ \E t \in now..MaxTime :
        /\ now' = t
        /\ backupPath' = BackupRoot(t)
    /\ pc' = "f_stat"
    /\ UNCHANGED <<fixedVars, rfs, result, tempPath, issued>>

\* incrementalSync: s.bar.Finish(); return the pipeline's error or nil.
IncReturn ==
    /\ pc = "u_errs"
    /\ mode = "incremental"
    /\ result' = IF UploadFailed(errs) THEN ErrUpload ELSE Ok
    /\ Return
    /\ UNCHANGED <<keptVars, rfs, now, tempPath, backupPath, issued>>

(***************************************************************************)
(* fullSync: backup, swap, restore, commit, cleanup (syncer.go:133-161,    *)
(* 116-122).                                                               *)
(***************************************************************************)
\* s.client.Stat(s.remotePath): err == nil needs the path; any error skips the backup.
FullStatTarget ==
    /\ pc = "f_stat"
    /\ \/ /\ Exists(rfs, TargetRoot)
          /\ pc' = "f_backup"
       \/ pc' = "f_swap"
    /\ UNCHANGED <<fixedVars, rfs, now, result, tempPath, backupPath, issued>>

\* s.client.Rename(s.remotePath, backupPath)
FullBackup ==
    /\ pc = "f_backup"
    /\ \/ /\ CanRename(rfs, TargetRoot, backupPath)
          /\ rfs' = Rename(rfs, TargetRoot, backupPath)
          /\ issued' = Append(issued, Op("backup", TRUE))
          /\ pc' = "f_swap"
          /\ UNCHANGED result
       \/ /\ issued' = Append(issued, Op("backup", FALSE))
          /\ result' = ErrBackup(BackupRenameErr)
          /\ pc' = "f_cleanup"
          /\ UNCHANGED rfs
    /\ UNCHANGED <<fixedVars, now, tempPath, backupPath>>

\* s.client.Rename(tempRemotePath, s.remotePath)
FullSwap ==
    /\ pc = "f_swap"
    /\ \/ /\ CanRename(rfs, tempPath, TargetRoot)
          /\ rfs' = Rename(rfs, tempPath, TargetRoot)
          /\ issued' = Append(issued, Op("swap", TRUE))
          /\ pc' = "f_bstat"
       \/ /\ issued' = Append(issued, Op("swap", FALSE))
          /\ pc' = "f_rstat"
          /\ UNCHANGED rfs
    /\ UNCHANGED <<fixedVars, now, result, tempPath, backupPath>>

\* The swap failed: s.client.Stat(backupPath); any error returns without a restore.
FullRestoreStat ==
    /\ pc = "f_rstat"
    /\ \/ /\ Exists(rfs, backupPath)
          /\ pc' = "f_restore"
          /\ UNCHANGED result
       \/ /\ result' = ErrRenameTemp(SwapRenameErr)
          /\ pc' = "f_cleanup"
    /\ UNCHANGED <<fixedVars, rfs, now, tempPath, backupPath, issued>>

\* s.client.Rename(backupPath, s.remotePath)
FullRestore ==
    /\ pc = "f_restore"
    /\ \/ /\ CanRename(rfs, backupPath, TargetRoot)
          /\ rfs' = Rename(rfs, backupPath, TargetRoot)
          /\ issued' = Append(issued, Op("restore", TRUE))
          /\ result' = ErrRestored(SwapRenameErr)
       \/ /\ issued' = Append(issued, Op("restore", FALSE))
          /\ result' = ErrRestoreFailed(SwapRenameErr, RestoreRenameErr)
          /\ UNCHANGED rfs
    /\ pc' = "f_cleanup"
    /\ UNCHANGED <<fixedVars, now, tempPath, backupPath>>

\* The swap succeeded: s.client.Stat(backupPath); any error skips the removal.
FullBackupStat ==
    /\ pc = "f_bstat"
    /\ \/ /\ Exists(rfs, backupPath)
          /\ pc' = "f_rmbak"
          /\ UNCHANGED result
       \/ /\ result' = Ok
          /\ pc' = "f_cleanup"
    /\ UNCHANGED <<fixedVars, rfs, now, tempPath, backupPath, issued>>

\* s.client.RemoveDirectory(backupPath); a failure is a warning; return nil.
FullRemoveBackup ==
    /\ pc = "f_rmbak"
    /\ \/ /\ CanRemoveDirectory(rfs, backupPath)
          /\ rfs' = RemoveDirectory(rfs, backupPath)
          /\ issued' = Append(issued, Op("rmbak", TRUE))
       \/ /\ issued' = Append(issued, Op("rmbak", FALSE))
          /\ UNCHANGED rfs
    /\ result' = Ok
    /\ pc' = "f_cleanup"
    /\ UNCHANGED <<fixedVars, now, tempPath, backupPath>>

\* The deferred function: s.client.RemoveDirectory(tempRemotePath); a failure is a
\* warning; s.bar.Finish(); Sync returns result.
FullCleanup ==
    /\ pc = "f_cleanup"
    /\ \/ /\ CanRemoveDirectory(rfs, tempPath)
          /\ rfs' = RemoveDirectory(rfs, tempPath)
          /\ issued' = Append(issued, Op("cleanup", TRUE))
       \/ /\ issued' = Append(issued, Op("cleanup", FALSE))
          /\ UNCHANGED rfs
    /\ Return
    /\ UNCHANGED <<keptVars, now, result, tempPath, backupPath>>

(***************************************************************************)
(* Specifications.                                                         *)
(***************************************************************************)
Upload ==
    \/ UploadSpawn
    \/ UploadSend
    \/ UploadClose
    \/ UploadWait
    \/ \E w \in Workers : Worker(w)

Full ==
    \/ FullSyncBegin
    \/ FullMkTemp
    \/ FullUploadFailed
    \/ FullUploaded
    \/ FullStatTarget
    \/ FullBackup
    \/ FullSwap
    \/ FullRestoreStat
    \/ FullRestore
    \/ FullBackupStat
    \/ FullRemoveBackup
    \/ FullCleanup

Incremental ==
    \/ IncSyncBegin
    \/ IncMkdir
    \/ IncReturn

Next == SyncUnsupported \/ SyncCollectFail \/ Full \/ Incremental \/ Upload

Spec == Init /\ [][Next]_vars

\* Syncers created with Mode "full".
InitFull == InitWith({"full"}, WorkerCounts)
NextFull == SyncCollectFail \/ Full \/ Upload
SpecFull == InitFull /\ [][NextFull]_vars

\* Syncers created with Mode "incremental".
InitInc == InitWith({"incremental"}, WorkerCounts)
NextInc == SyncCollectFail \/ Incremental \/ Upload
SpecInc == InitInc /\ [][NextInc]_vars

\* Incremental Syncers under a fair scheduler: the goroutine that runs
\* uploadFiles and every worker goroutine take a step when they can, and each
\* read and each remote operation returns.
Dispatcher == UploadSpawn \/ UploadSend \/ UploadClose \/ UploadWait
Fairness == WF_vars(Dispatcher) /\ \A w \in Workers : WF_vars(Worker(w))
SpecIncFair == InitInc /\ [][NextInc]_vars /\ Fairness

(***************************************************************************)
(* Properties.                                                             *)
(***************************************************************************)
\* The last Sync call has returned.
Returned == pc = "idle" /\ calls > 0

\* A remote tree holds exactly the entries of a local tree, files with their
\* content (the directory itself included: an absent root holds nothing).
HoldsExactly(t, l) ==
    \A p \in RelPaths :
        /\ t[p].kind = l[p].kind
        /\ t[p].kind = "file" => t[p].ver = l[p].ver /\ t[p].len = l[p].len

\* C1: when a full Sync with workers >= 1 returns success, the target holds
\* exactly the local tree: every local entry with its content, and nothing else.
C1_FullSuccessMirrorsLocal ==
    (Returned /\ mode = "full" /\ workers >= 1 /\ result = Ok)
        => HoldsExactly(rfs[TargetRoot], localTree)

\* Operations the current call issued.
Issued(name, ok) == \E i \in 1..Len(issued) : issued[i] = Op(name, ok)
Attempted(name) == Issued(name, TRUE) \/ Issued(name, FALSE)

\* C2: in full mode a pipeline error makes Sync fail with the upload error, and
\* from the pipeline's error to the return no rename is attempted and the target
\* is what it was when the call began.
C2_UploadErrorLeavesTarget ==
    /\ [](mode = "full" /\ (Returned \/ pc = "f_cleanup") /\ result = ErrUpload
            => /\ ~Attempted("backup") /\ ~Attempted("swap") /\ ~Attempted("restore")
               /\ rfs[TargetRoot] = preTarget)
    /\ [][mode = "full" /\ pc = "u_errs" /\ errs # <<>>
            => result' = ErrUpload /\ pc' = "f_cleanup" /\ rfs' = rfs]_vars

\* A full Sync over an existing target returned the upload error after a file was created.
C2_Witness ==
    /\ Returned /\ mode = "full" /\ result = ErrUpload
    /\ preTarget = OldTree /\ uploaded # {}

\* C3: in full mode, when the swap rename failed and the restore rename succeeded,
\* Sync returns the "restored from backup" error and the target holds exactly
\* what it held when the call began.
C3_RestoreBringsBackTarget ==
    (Returned /\ mode = "full" /\ workers >= 1
        /\ Issued("swap", FALSE) /\ Issued("restore", TRUE))
        => /\ result = ErrRestored(SwapRenameErr)
           /\ rfs[TargetRoot] = preTarget

\* C4: Sync returns the combined "sync failed and restore failed" error, with the
\* swap's and the restore's error, exactly when both renames failed.
C4_CombinedErrorIffBothFail ==
    (Returned /\ mode = "full")
        => /\ (Issued("swap", FALSE) /\ Issued("restore", FALSE))
                <=> result.kind = "sync failed and restore failed"
           /\ result.kind = "sync failed and restore failed"
                => result.cause = SwapRenameErr /\ result.cause2 = RestoreRenameErr

\* The swap and the restore both failed and Sync returned.
C4_Witness ==
    /\ Returned /\ mode = "full"
    /\ Issued("swap", FALSE) /\ Issued("restore", FALSE)
    /\ result = ErrRestoreFailed(SwapRenameErr, RestoreRenameErr)

\* C5: when a full Sync returns anything but the combined restore-failed error,
\* the target holds the complete pre-sync tree (absent if it was absent) or the
\* complete new local tree.
C5_OldOrNewAtReturn ==
    (Returned /\ mode = "full" /\ workers >= 1
        /\ result.kind # "sync failed and restore failed")
        => \/ rfs[TargetRoot] = preTarget
           \/ HoldsExactly(rfs[TargetRoot], localTree)

NeedsUpload(remote, local) ==
    \/ remote.kind = "none"
    \/ remote.len # local.len
    \/ remote.mtime # local.mtime

\* C7: in incremental mode a local file is uploaded if and only if it is missing
\* on the remote or differs from the remote in size or in modification time.
C7_UploadIffChanged ==
    (Returned /\ mode = "incremental" /\ workers >= 1 /\ result = Ok)
        => \A p \in LocalPaths :
              localTree[p].kind = "file"
                  => (p \in uploaded <=> NeedsUpload(preTarget[p], localTree[p]))

\* C8: an incremental Sync that follows a successful one, with the same local
\* tree, uploads no file and transfers no byte.
C8_SecondRunUploadsNothing ==
    (mode = "incremental" /\ calls = 2 /\ prevResult = Ok /\ prevTree = localTree)
        => uploaded = {} /\ syncedSize = startSynced

\* C9: incremental Sync never removes a remote entry.  An entry of the pre-sync
\* target with no local counterpart keeps its content, whatever the outcome; no
\* step makes an existing remote entry disappear or change its kind; and the
\* files the call created stay where they were copied.
C9_IncrementalIsAdditive ==
    /\ [](mode = "incremental" /\ calls > 0
            => /\ \A p \in RelPaths :
                    preTarget[p].kind # "none" /\ localTree[p].kind = "none"
                        => rfs[TargetRoot][p] = preTarget[p]
               /\ \A p \in uploaded :
                    /\ rfs[TargetRoot][p].kind = "file"
                    /\ rfs[TargetRoot][p].ver = localTree[p].ver)
    /\ [][mode = "incremental"
            => \A r \in Roots, p \in RelPaths :
                  rfs[r][p].kind # "none" => rfs'[r][p].kind = rfs[r][p].kind]_vars

\* An incremental Sync over the old tree failed in the pipeline after it created
\* a file; the remote-only entry x is where it was.
C9_Witness ==
    /\ Returned /\ mode = "incremental" /\ result = ErrUpload
    /\ preTarget = OldTree /\ uploaded # {}
    /\ rfs[TargetRoot]["x"] = OldTree["x"]

RECURSIVE SumLen(_, _)
SumLen(tree, ps) ==
    IF ps = {} THEN 0
    ELSE LET p == CHOOSE q \in ps : TRUE IN tree[p].len + SumLen(tree, ps \ {p})

\* C10: when a Sync call succeeds, the last value given to the progress bar is
\* the sum of the sizes of the files the call uploaded.
C10_ProgressEqualsUploadedSizes ==
    (Returned /\ workers >= 1 /\ result = Ok /\ uploaded # {})
        => bar = SumLen(localTree, uploaded)

\* Number of times x occurs in the sequence es.
Count(es, x) == Cardinality({i \in 1..Len(es) : es[i] = x})

\* The relative paths of the entries of a file list.
Entries(files) == {files[i].RelPath : i \in 1..Len(files)}

\* uploadFiles has returned from wg.Wait() and is about to read the errors.
PipelineOver == pc = "u_errs"

\* C11: with workers >= 1 a failed entry does not stop the pipeline.  No entry is
\* ever received twice; when the workers are done every entry of the list was
\* received exactly once and nothing else was, every entry either ended without
\* an error or left exactly one error, and uploadFiles reports failure exactly
\* when some entry failed.  A worker that sent an error is back at the receive.
C11_EveryEntryAttemptedOnce ==
    /\ [](workers >= 1
            => /\ \A p \in LocalPaths : taken[p] <= 1
               /\ PipelineOver
                    => /\ \A p \in LocalPaths :
                            taken[p] = IF p \in Entries(localFiles) THEN 1 ELSE 0
                       /\ \A p \in Entries(localFiles) :
                            Count(errs, p) = IF p \in succeeded THEN 0 ELSE 1
                       /\ Len(errs) = Cardinality(Entries(localFiles) \ succeeded)
                       /\ UploadFailed(errs) <=> Entries(localFiles) \ succeeded # {})
    /\ [][\A w \in Workers :
            Len(errs') > Len(errs) /\ wpc[w] # wpc'[w] => wpc'[w] = "recv"]_vars

\* One worker: the first entry failed, and the two after it were still processed.
C11_Witness ==
    /\ PipelineOver /\ workers = 1 /\ localTree = TreeA
    /\ errs = <<"a">> /\ succeeded = {"d", "d/f"}
    /\ rfs[base]["d/f"].len = 1

\* The positions of the staging-directory cleanup among the operations of the call.
Cleanups == {i \in 1..Len(issued) : issued[i].op = "cleanup"}

\* C12: once the staging directory was created, a full Sync that returns has run
\* the cleanup exactly once, as its last remote operation; after a successful
\* swap the cleanup found no staging path to remove; and after a successful Sync
\* neither the staging directory nor the backup directory is on the remote.
C12_CleanupOnceNothingLeft ==
    (Returned /\ mode = "full" /\ workers >= 1 /\ Issued("mktemp", TRUE))
        => /\ Cleanups = {Len(issued)}
           /\ Issued("swap", TRUE) => Issued("cleanup", FALSE)
           /\ result = Ok => ~Exists(rfs, tempPath) /\ ~Exists(rfs, backupPath)

\* C13: in both modes, when the enumeration of the local tree fails, Sync returns
\* the collect error at once: the failing call issues no remote operation, the
\* remote filesystem is what it was, and no pipeline is started.
C13_WalkFailureBeforeRemoteOps ==
    /\ [](walkFailed
            => /\ pc = "idle" /\ result = ErrCollect
               /\ issued = <<>> /\ uploaded = {}
               /\ rfs[TargetRoot] = preTarget)
    /\ [][walkFailed' /\ calls' # calls => rfs' = rfs /\ pc' = "idle"]_vars

\* Both modes: a Sync over an existing target returned the collect error.
C13_Witness ==
    /\ Returned /\ walkFailed /\ result = ErrCollect
    /\ calls = 2 /\ prevResult = Ok /\ Exists(rfs, TargetRoot)

\* The positions of the caller's goroutine after wg.Wait() has returned.
AfterWait == {"u_errs", "f_stat", "f_backup", "f_swap", "f_rstat", "f_restore",
              "f_bstat", "f_rmbak", "f_cleanup", "idle"}

\* A worker goroutine that has been started and has not yet returned.
Running(w) == wpc[w] \notin {"off", "done"}

\* C14: the caller reads the errors and goes on to the backup rename, the swap
\* rename or the return only after every worker has exited: in no state is a
\* worker still running while the errors are read, while a rename is about to be
\* issued, or after uploadFiles has returned.
C14_WorkersExitedBeforeNextStep ==
    pc \in AfterWait => \A w \in Workers : ~Running(w)

\* Two workers uploaded TreeA and both have exited; the backup rename is next.
C14_Witness ==
    /\ pc = "f_backup" /\ workers = 2
    /\ \A w \in Workers : wpc[w] = "done"
    /\ uploaded = {"a", "d/f"}

\* The pipeline has uploaded the list: no error, and every entry of the list is
\* under the base path as the local tree has it (kind, content, size, mtime).
UploadedAll ==
    /\ errs = <<>>
    /\ \A p \in Entries(localFiles) : rfs[base][p] = localTree[p]

\* C15 as claimed: when no remote operation fails for an outside reason, the
\* pipeline succeeds with the local entries in place, for every worker count
\* >= 1 and every interleaving.
C15_NoRemoteFaultUploadsAll ==
    (PipelineOver /\ workers >= 1 /\ fault # "remote") => UploadedAll

\* C15 as amended: when no remote operation and no read of a local file fails
\* for an outside reason, the pipeline succeeds with the local entries in
\* place, for every worker count >= 1 and every interleaving, and the workers
\* change nothing on the remote but the entries of the list under the base
\* path; so the remote tree is the same for all of them.
C15_NoFaultUploadsAll ==
    /\ []((PipelineOver /\ workers >= 1 /\ fault = "none") => UploadedAll)
    /\ [][(pc = "u_send" \/ pc = "u_wait")
            => \A r \in Roots, p \in RelPaths :
                  rfs'[r][p] # rfs[r][p] => (r = base /\ p \in Entries(localFiles))]_vars

\* A race on a directory: one worker received the entry d and has not yet made
\* it, while the other made d as the parent of d/f, uploaded d/f and exited.
C15_Witness ==
    /\ pc = "u_wait" /\ workers = 2 /\ calls = 1 /\ preTarget = NoTree
    /\ localTree = TreeA /\ fault = "none" /\ errs = <<>>
    /\ \E w \in Workers :
          /\ wpc[w] = "mkdir" /\ wjob[w].RelPath = "d"
          /\ \A v \in Workers \ {w} : wpc[v] = "done"
    /\ rfs[base]["d"] = DirNode /\ rfs[base]["d/f"] = TreeA["d/f"]

\* C16: nothing is carried from one Sync call to the next: every call finds the
\* bytes-transferred counter at zero, and when a call succeeds the counter is
\* the sum of the sizes of the files that call uploaded.
C16_CounterStartsAtZero ==
    (calls > 0 /\ workers >= 1)
        => /\ startSynced = 0
           /\ (Returned /\ result = Ok) => syncedSize = SumLen(localTree, uploaded)

\* The target existed when the call began (it is not touched before the backup).
PreExists == preTarget["."].kind = "dir"

\* C17: full mode goes stage, upload, backup, swap, commit.  After a successful
\* upload the backup rename is issued exactly when the target exists; the swap
\* rename is issued only after the backup rename succeeded or was skipped for a
\* target that does not exist; and a failed backup rename ends the call at once
\* with the backup error, no swap rename and the pre-sync target in place.
C17_BackupThenSwap ==
    (mode = "full" /\ workers >= 1 /\ calls > 0)
        => /\ Attempted("backup") => PreExists /\ Issued("mktemp", TRUE)
           /\ pc = "f_swap" => (Attempted("backup") <=> PreExists)
           /\ Attempted("swap") => Issued("backup", TRUE) \/ ~PreExists
           /\ Issued("backup", FALSE)
                => /\ ~Attempted("swap")
                   /\ rfs[TargetRoot] = preTarget
                   /\ pc \in {"f_cleanup", "idle"}
                   /\ result = ErrBackup(BackupRenameErr)

\* C18: every full Sync uploads into a fresh staging directory: its path does not
\* exist when the run is about to create it and holds no entry once created, also
\* on a retry and for runs of the same timestamp; so the tree the swap rename
\* puts in place holds only entries of this run's local tree.
C18_StagingIsFresh ==
    (mode = "full" /\ workers >= 1)
        => /\ pc = "f_mktemp" => rfs[tempPath] = NoTree
           /\ pc = "u_spawn" => rfs[tempPath] = EmptyDir
           /\ (pc = "f_bstat" /\ Issued("swap", TRUE))
                => \A p \in RelPaths \ {"."} :
                      rfs[TargetRoot][p].kind # "none" => localTree[p].kind # "none"

\* C19: warnings never change the result.  Whether Chmod or Chtimes succeeds or
\* fails, the worker sends no error and goes on, and after Chtimes the entry has
\* succeeded; whether the removal of the backup succeeds or fails, Sync is on
\* its way to return nil; whether the removal of the staging directory succeeds
\* or fails, Sync returns the result it had.
C19_WarningsKeepResult ==
    /\ [][\A w \in Workers :
            /\ (wpc[w] = "chmod" /\ wpc'[w] # wpc[w])
                 => errs' = errs /\ wpc'[w] = "chtimes"
            /\ (wpc[w] = "chtimes" /\ wpc'[w] # wpc[w])
                 => errs' = errs /\ wpc'[w] = "recv" /\ wjob[w].RelPath \in succeeded']_vars
    /\ [][(pc = "f_rmbak" /\ pc' # pc) => result' = Ok /\ pc' = "f_cleanup"]_vars
    /\ [][(pc = "f_cleanup" /\ pc' # pc) => result' = result /\ pc' = "idle"]_vars

\* A full Sync returned nil although Chtimes failed for d/f (its remote mtime is
\* the server's) and neither the backup nor the staging path could be removed.
C19_Witness ==
    /\ Returned /\ mode = "full" /\ workers >= 1 /\ result = Ok
    /\ localTree = TreeB /\ rfs[TargetRoot]["d/f"].mtime = 0
    /\ rfs[TargetRoot]["d/f"].len = 1
    /\ Issued("rmbak", FALSE) /\ Issued("cleanup", FALSE)

\* C20: uploadFiles neither deadlocks nor runs forever, for lists of zero and
\* more entries and for every worker count.  The dispatcher can always send the
\* next job, a worker that holds an entry can always send an error, and once
\* uploadFiles has made its channels it reaches the reading of the errors, with
\* every job received if there is a worker and every worker gone.
C20_UploadTerminates ==
    /\ []((pc = "u_send" /\ sent < Len(localFiles)) => Len(jobs) < ChanCap(localFiles))
    /\ [](\A w \in Workers :
            wpc[w] \notin {"off", "recv", "done"} => Len(errs) < ChanCap(localFiles))
    /\ [](PipelineOver => (\A w \in Workers : ~Running(w)) /\ (workers >= 1 => jobs = <<>>))
    /\ (pc = "u_spawn" ~> PipelineOver)

\* Two workers, three entries, two of them failed: uploadFiles is past wg.Wait().
C20_Witness ==
    /\ PipelineOver /\ workers = 2 /\ Len(localFiles) = 3 /\ Len(errs) = 2
    /\ \A w \in Workers : wpc[w] = "done"

\* The mode of the Syncer is neither "full" nor "incremental".
Unsupported == mode \notin {"full", "incremental"}

\* C21: Sync with a mode other than "full" and "incremental" returns the
\* unsupported-mode error without enumerating the local tree and without a
\* remote operation: the remote filesystem and the counters of the Syncer are
\* what they were, and no pipeline is started.
C21_UnsupportedModeDoesNothing ==
    /\ []((Unsupported /\ calls > 0)
            => /\ pc = "idle" /\ result = ErrUnsupported
               /\ issued = <<>> /\ uploaded = {} /\ ~walkFailed
               /\ localFiles = <<>> /\ localTree = EmptyDir
               /\ totalSize = 0 /\ syncedSize = 0 /\ bar = 0)
    /\ [][Unsupported
            => /\ rfs' = rfs
               /\ <<totalSize, syncedSize, bar>>' = <<totalSize, syncedSize, bar>>
               /\ <<localTree, localFiles, wpc>>' = <<localTree, localFiles, wpc>>]_vars

\* A Syncer of mode "mirror" over an existing target: two calls, both refused.
C21_Witness ==
    /\ Returned /\ mode = "mirror" /\ calls = 2
    /\ result = ErrUnsupported /\ prevResult = ErrUnsupported
    /\ rfs[TargetRoot] = OldTree

\* C22: for every worker count, zero and negative counts included, uploadFiles
\* succeeds only if every entry of the list was received by a worker; so a
\* full Sync that returns nil has put every local entry in the target.
C22_SuccessMeansAllProcessed ==
    /\ (PipelineOver /\ ~UploadFailed(errs))
          => \A p \in Entries(localFiles) : taken[p] = 1
    /\ (Returned /\ mode = "full" /\ result = Ok)
          => \A p \in LocalPaths :
                localTree[p].kind # "none" => rfs[TargetRoot][p].kind = localTree[p].kind

====
